---- MODULE Spec2Model ----
(***************************************************************************)
(* Model of tdameritrade/client.py: the TDClient access-token record, the  *)
(* freshness check _updateAccessTokenIfExpired and the endpoint methods    *)
(* that call it before every HTTP request.                                 *)
(*                                                                         *)
(* Spec: one caller drives the client.  SpecStale: the staleness test on   *)
(* its own.  SpecConc: two callers share the client.  Time is the value of *)
(* time.time() in whole seconds and may advance between any two steps of a *)
(* method (the exchange and the HTTP request are blocking network calls).  *)
(***************************************************************************)
EXTENDS Integers, Sequences, FiniteSets, TLC

\* ---------------------------------------------------------------- bounds
\* Number of clock steps in a run.
MaxTicks == 3
\* Number of endpoint-method calls the caller makes in a run.
MaxCalls == 2

\* Seconds per clock step, and the largest value time.time() takes.
TickStep == 30
MaxTime == MaxTicks * TickStep

\* ------------------------------------------------------- program constants
\* client.py:34  "expires_in - 60"
Margin == 60
\* client.py:21  initial expires_in
InitialExpiresIn == 0 - 1
\* client.py:63, 70  status_code == 200
StatusOk == 200

\* The public endpoint methods of TDClient that issue requests.
Methods ==
  {"accounts", "search", "instrument", "quote", "history", "options",
   "movers", "place_order", "replace_order", "get_orders"}

\* ------------------------------------------------------------- environment
\* Access tokens the authorization endpoint hands out (non-empty strings).
AccessTokens == {"tokA", "tokB"}
\* Lifetimes the authorization endpoint declares.
ExpiresInValues == {30, 90, 120}
\* What auth.access_token(refreshToken, clientId) returns when it does not
\* raise: the JSON object of the 200 answer.  keys is the set of keys the
\* object has; the value of an absent key is never read.
AuthResponses ==
  { r \in [keys         : SUBSET {"access_token", "expires_in"},
           access_token : AccessTokens \cup {""},
           expires_in   : ExpiresInValues \cup {0}] :
      /\ ("access_token" \in r.keys) = (r.access_token # "")
      /\ ("expires_in" \in r.keys) = (r.expires_in # 0) }

\* Account id lists a client is constructed with.
AccountIdLists == {<< >>, <<11>>, <<11, 22>>}

\* Resource-endpoint answers: a status code and a body text.
Statuses == {200, 201, 404}
Bodies == {"[{acct}]", "{obj}", "plain"}
HttpResponses == [status_code : Statuses, text : Bodies]

\* resp.json(): parses the body text; raises ValueError when it is not JSON.
NotJson == "<not json>"
json(text) ==
  CASE text = "[{acct}]" -> "list"
    [] text = "{obj}"    -> "object"
    [] OTHER             -> NotJson

VARIABLES
  clientId,      \* self._clientId
  refreshToken,  \* self._refreshToken['token']
  accessToken,   \* self._accessToken: [token, created_at, expires_in]
  accountIds,    \* self._accountIds
  now,           \* time.time()
  pc,            \* position of the caller inside the current method
  method,        \* the endpoint method being executed
  accIdx,        \* accounts(): index of the loop over self._accountIds
  ret,           \* accounts(): the dict being built
  outcome,       \* how the last finished call ended
  sent,          \* headers of the last request handed to requests.*
  lastResp,      \* the answer to the last request
  nCalls,        \* endpoint calls started
  hist           \* observation counters (not program state)

vars ==
  << clientId, refreshToken, accessToken, accountIds, now, pc, method,
     accIdx, ret, outcome, sent, lastResp, nCalls, hist >>

NoOutcome == [kind |-> "none", exc |-> "", status |-> 0, body |-> "", value |-> << >>]
NoResp == [status_code |-> 0, text |-> ""]
NoSent == [Authorization |-> "", ContentType |-> ""]

\* _accessTokenAgeSecs (client.py:41-42)
accessTokenAgeSecs == now - accessToken.created_at

\* The condition of the if in _updateAccessTokenIfExpired (client.py:33-34)
IsStaleMissingMargin(tok, age, exp) == tok = "" \/ age >= exp
IsStaleStrict(tok, age, exp) == tok = "" \/ age > exp - Margin
IsStaleTokenOnly(tok, age, exp) == tok # "" /\ age >= exp - Margin
IsStale(tok, age, exp) == tok = "" \/ age >= exp - Margin

\* _headers (client.py:24-28)
headers ==
  [Authorization |-> "Bearer " \o accessToken.token,
   ContentType   |-> "application/json"]


\* ------------------------------------------------------------ construction
\* __init__ (client.py:15-22)
InitialAccessToken(t) ==
  [token |-> "", created_at |-> t, expires_in |-> InitialExpiresIn]

InitialHist ==
  [checksSince   |-> 0,    \* freshness checks since method entry / last request
   checks        |-> 0,    \* freshness checks made so far
   exchanges     |-> 0,    \* calls of auth.access_token made so far
   callExchanges |-> 0,    \* calls of auth.access_token in the current call
   callRequests  |-> 0,    \* HTTP requests issued in the current call
   checkStale    |-> FALSE,\* result of the last staleness test
   checkNow      |-> 0,    \* time.time() at the last staleness test
   before        |-> InitialAccessToken(0),
                           \* self._accessToken when the running exchange began
   authFailed    |-> FALSE,\* the last exchange ended with auth.access_token raising
   refreshedAt   |-> 0 - 1,\* time.time() when client.py:37-39 last completed
   lastToken     |-> "",   \* access_token of the last answer that had one
   requested     |-> << >>,\* what each request of the current call asked for
   origin        |-> [token |-> 0, created_at |-> 0, expires_in |-> 0]]
                           \* number of the exchange that wrote each field

Init ==
  /\ clientId = "client-id"
  /\ refreshToken = "refresh-token"
  /\ now = 0
  /\ accessToken = InitialAccessToken(now)
  /\ accountIds \in AccountIdLists
  /\ pc = "idle"
  /\ method = ""
  /\ accIdx = 0
  /\ ret = << >>
  /\ outcome = NoOutcome
  /\ sent = NoSent
  /\ lastResp = NoResp
  /\ nCalls = 0
  /\ hist = InitialHist

\* ------------------------------------------------------------------ clock
Tick ==
  /\ now + TickStep <= MaxTime
  /\ now' = now + TickStep
  /\ UNCHANGED << clientId, refreshToken, accessToken, accountIds, pc, method,
                  accIdx, ret, outcome, sent, lastResp, nCalls, hist >>

\* -------------------------------------------------------- endpoint methods
\* The first statement each endpoint method executes after computing its
\* arguments: self._updateAccessTokenIfExpired()
\* (client.py:60, 68, 82, 104, 113, 125, 138, 162, 198, 214, 231).
FirstStepNoCheck(m) == IF m = "get_orders" THEN "request" ELSE "check"
FirstStepEagerExchange(m) == IF m = "quote" THEN "exchange" ELSE "check"
FirstStep(m) == "check"

\* The caller invokes endpoint method m.
Enter(m) ==
  /\ pc = "idle"
  /\ nCalls < MaxCalls
  /\ nCalls' = nCalls + 1
  /\ method' = m
  /\ accIdx' = IF m = "accounts" /\ Len(accountIds) > 0 THEN 1 ELSE 0
  /\ ret' = << >>
  /\ outcome' = NoOutcome
  /\ sent' = NoSent
  /\ lastResp' = NoResp
  /\ pc' = FirstStep(m)
  /\ hist' = [hist EXCEPT !.checksSince = 0, !.callExchanges = 0,
                          !.callRequests = 0, !.requested = << >>]
  /\ UNCHANGED << clientId, refreshToken, accessToken, accountIds, now >>

\* _updateAccessTokenIfExpired up to the call of auth.access_token
\* (client.py:30-36): evaluates the staleness test and, when stale, starts
\* the exchange.
UpdateAccessTokenIfExpired ==
  /\ pc = "check"
  /\ LET stale == IsStale(accessToken.token, accessTokenAgeSecs,
                          accessToken.expires_in)
     IN /\ pc' = IF stale THEN "exchange" ELSE "request"
        /\ hist' = [hist EXCEPT
                      !.checksSince = @ + 1,
                      !.checks = @ + 1,
                      !.exchanges = IF stale THEN @ + 1 ELSE @,
                      !.callExchanges = IF stale THEN @ + 1 ELSE @,
                      !.checkStale = stale,
                      !.checkNow = now,
                      !.before = accessToken]
  /\ UNCHANGED << clientId, refreshToken, accessToken, accountIds, now, method,
                  accIdx, ret, outcome, sent, lastResp, nCalls >>

ExchangeRaiseClearsToken ==
  /\ pc = "exchange"
  /\ pc' = "idle"
  /\ outcome' = [NoOutcome EXCEPT !.kind = "raise", !.exc = "AuthError"]
  /\ accessToken' = [accessToken EXCEPT !.token = ""]
  /\ hist' = [hist EXCEPT !.authFailed = TRUE]
  /\ UNCHANGED << clientId, refreshToken, accountIds, now, method,
                  accIdx, ret, sent, lastResp, nCalls >>
ExchangeRaiseSwallowed ==
  /\ pc = "exchange"
  /\ pc' = "request"
  /\ outcome' = [NoOutcome EXCEPT !.kind = "raise", !.exc = "AuthError"]
  /\ hist' = [hist EXCEPT !.authFailed = TRUE]
  /\ UNCHANGED << clientId, refreshToken, accessToken, accountIds, now, method,
                  accIdx, ret, sent, lastResp, nCalls >>
\* auth.access_token raises (the authorization endpoint answered non-200 or
\* could not be reached): the exception leaves _updateAccessTokenIfExpired
\* at client.py:35 and the endpoint method.
ExchangeRaise ==
  /\ pc = "exchange"
  /\ pc' = "idle"
  /\ outcome' = [NoOutcome EXCEPT !.kind = "raise", !.exc = "AuthError"]
  /\ hist' = [hist EXCEPT !.authFailed = TRUE]
  /\ UNCHANGED << clientId, refreshToken, accessToken, accountIds, now, method,
                  accIdx, ret, sent, lastResp, nCalls >>

\* client.py:37-39 executed on the returned object r at time t: three
\* assignments in order, each subscript raising KeyError on an absent key.
\* Gives the record after the statements and whether KeyError was raised.
StoreResponseKeepCreatedAt(at, r, t) ==
  IF "access_token" \notin r.keys
    THEN [store |-> at, raised |-> TRUE, written |-> {}]
  ELSE IF "expires_in" \notin r.keys
    THEN [store |-> [at EXCEPT !.token = r.access_token],
          raised |-> TRUE, written |-> {"token", "created_at"}]
  ELSE [store |-> [at EXCEPT !.token = r.access_token,
                             !.expires_in = r.expires_in],
        raised |-> FALSE, written |-> {"token", "created_at", "expires_in"}]
StoreResponseKeepsFirstToken(at, r, t) ==
  IF "access_token" \notin r.keys
    THEN [store |-> at, raised |-> TRUE, written |-> {}]
  ELSE IF "expires_in" \notin r.keys
    THEN [store |-> [at EXCEPT !.created_at = t],
          raised |-> TRUE, written |-> {"token", "created_at"}]
  ELSE [store |-> [token |-> IF at.token = "" THEN r.access_token
                                              ELSE at.token,
                   created_at |-> t, expires_in |-> r.expires_in],
        raised |-> FALSE, written |-> {"token", "created_at", "expires_in"}]
StoreResponse(at, r, t) ==
  IF "access_token" \notin r.keys
    THEN [store |-> at, raised |-> TRUE, written |-> {}]
  ELSE IF "expires_in" \notin r.keys
    THEN [store |-> [at EXCEPT !.token = r.access_token, !.created_at = t],
          raised |-> TRUE, written |-> {"token", "created_at"}]
  ELSE [store |-> [token |-> r.access_token, created_at |-> t,
                   expires_in |-> r.expires_in],
        raised |-> FALSE, written |-> {"token", "created_at", "expires_in"}]

\* auth.access_token returns r; client.py:37-39 store it.
ExchangeReturn(r) ==
  /\ pc = "exchange"
  /\ LET res == StoreResponse(accessToken, r, now)
     IN /\ accessToken' = res.store
        /\ hist' = [hist EXCEPT
                      !.origin =
                        [f \in DOMAIN @ |->
                           IF f \in res.written THEN hist.exchanges ELSE @[f]],
                      !.before = res.store,
                      !.authFailed = FALSE,
                      !.refreshedAt = IF res.raised THEN @ ELSE now,
                      !.lastToken = IF "access_token" \in r.keys
                                      THEN r.access_token ELSE @]
        /\ pc' = IF res.raised THEN "idle" ELSE "request"
        /\ outcome' = IF res.raised
                        THEN [NoOutcome EXCEPT !.kind = "raise",
                                               !.exc = "KeyError"]
                        ELSE outcome
  /\ UNCHANGED << clientId, refreshToken, accountIds, now, method, accIdx, ret,
                  sent, lastResp, nCalls >>

\* The account the URL of a request names: ACCOUNTS + str(acc) in the loop of
\* accounts() (client.py:61), no account (0) in every other request
\* (client.py:69, 84, 106, ...).
RequestTarget(m, idx) ==
  IF m = "accounts" /\ idx > 0 THEN accountIds[idx] ELSE 0

IssueRequestTouches ==
  /\ pc = "request"
  /\ sent' = headers
  /\ pc' = "await"
  /\ accessToken' = [accessToken EXCEPT !.created_at = now]
  /\ hist' = [hist EXCEPT !.checksSince = 0, !.callRequests = @ + 1,
                          !.requested = Append(@, RequestTarget(method, accIdx))]
  /\ UNCHANGED << clientId, refreshToken, accountIds, now, method,
                  accIdx, ret, outcome, lastResp, nCalls >>
\* requests.get / post / put is called with headers=self._headers()
\* (client.py:61-62, 69, 84-87, 106-107, 115-117, 126-128, 140-142, 163-166,
\* 199-201, 215-217, 232-234).
IssueRequest ==
  /\ pc = "request"
  /\ sent' = headers
  /\ pc' = "await"
  /\ hist' = [hist EXCEPT !.checksSince = 0, !.callRequests = @ + 1,
                          !.requested = Append(@, RequestTarget(method, accIdx))]
  /\ UNCHANGED << clientId, refreshToken, accessToken, accountIds, now, method,
                  accIdx, ret, outcome, lastResp, nCalls >>


\* ------------------------------------------------------ handling the answer
Raise(exc, body) ==
  [NoOutcome EXCEPT !.kind = "raise", !.exc = exc, !.body = body]
Return(value) ==
  [NoOutcome EXCEPT !.kind = "return", !.value = value]

\* accounts(), the loop over self._accountIds (client.py:59-66, 76): what one
\* answer does to the loop.  Gives the next position, the dict and, when the
\* method ends, its outcome.
AccountsEachSkipsFailure(resp, idx, dict) ==
  IF resp.status_code = StatusOk /\ json(resp.text) = NotJson
    THEN [pc |-> "idle", idx |-> idx, ret |-> dict,
          outcome |-> Raise("ValueError", "")]
    ELSE LET d == IF resp.status_code = StatusOk
                    THEN Append(dict, << accountIds[idx], json(resp.text) >>)
                    ELSE dict
         IN IF idx < Len(accountIds)
              THEN [pc |-> "check", idx |-> idx + 1, ret |-> d,
                    outcome |-> NoOutcome]
              ELSE [pc |-> "idle", idx |-> idx, ret |-> d,
                    outcome |-> Return(d)]
AccountsEach(resp, idx, dict) ==
  IF resp.status_code = StatusOk
    THEN IF json(resp.text) = NotJson
           THEN [pc |-> "idle", idx |-> idx, ret |-> dict,
                 outcome |-> Raise("ValueError", "")]
         ELSE LET d == Append(dict, << accountIds[idx], json(resp.text) >>)
              IN IF idx < Len(accountIds)
                   THEN [pc |-> "check", idx |-> idx + 1, ret |-> d,
                         outcome |-> NoOutcome]
                   ELSE [pc |-> "idle", idx |-> idx, ret |-> d,
                         outcome |-> Return(d)]
    ELSE [pc |-> "idle", idx |-> idx, ret |-> dict,
          outcome |-> Raise("Exception", resp.text)]

\* accounts() without account ids (client.py:68-76).  Iterating a JSON
\* object yields its keys, and subscripting a key with 'securitiesAccount'
\* raises TypeError.
AccountsAll(resp) ==
  IF resp.status_code = StatusOk
    THEN CASE json(resp.text) = NotJson ->
                [pc |-> "idle", idx |-> 0, ret |-> << >>,
                 outcome |-> Raise("ValueError", "")]
           [] json(resp.text) = "object" ->
                [pc |-> "idle", idx |-> 0, ret |-> << >>,
                 outcome |-> Raise("TypeError", "")]
           [] OTHER ->
                [pc |-> "idle", idx |-> 0, ret |-> << <<"acct", "acct">> >>,
                 outcome |-> Return(<< <<"acct", "acct">> >>)]
    ELSE [pc |-> "idle", idx |-> 0, ret |-> << >>,
          outcome |-> Raise("Exception", resp.text)]

\* search, instrument, quote, history, options, movers, place_order,
\* replace_order, get_orders: "return requests.xxx(...).json()"
\* (client.py:84-87, 106-107, 115-117, 126-128, 140-142, 163-166, 199-201,
\* 215-217, 232-234).  The status code is not looked at.
JsonOfAnswer(resp) ==
  IF json(resp.text) = NotJson
    THEN [pc |-> "idle", idx |-> 0, ret |-> << >>,
          outcome |-> Raise("ValueError", "")]
    ELSE [pc |-> "idle", idx |-> 0, ret |-> << >>,
          outcome |-> Return(json(resp.text))]

Handle(m, resp, idx, dict) ==
  IF m = "accounts"
    THEN IF idx > 0 THEN AccountsEach(resp, idx, dict) ELSE AccountsAll(resp)
    ELSE JsonOfAnswer(resp)

\* The resource endpoint answers resp and the method handles it.
Receive(resp) ==
  /\ pc = "await"
  /\ lastResp' = resp
  /\ LET h == Handle(method, resp, accIdx, ret)
     IN /\ pc' = h.pc
        /\ accIdx' = h.idx
        /\ ret' = h.ret
        /\ outcome' = h.outcome
  /\ UNCHANGED << clientId, refreshToken, accessToken, accountIds, now, method,
                  sent, nCalls, hist >>

\* requests.* itself raises (connection error): the method ends.
RequestRaise ==
  /\ pc = "await"
  /\ pc' = "idle"
  /\ outcome' = Raise("ConnectionError", "")
  /\ UNCHANGED << clientId, refreshToken, accessToken, accountIds, now, method,
                  accIdx, ret, sent, lastResp, nCalls, hist >>

Next ==
  \/ Tick
  \/ \E m \in Methods : Enter(m)
  \/ UpdateAccessTokenIfExpired
  \/ ExchangeRaise
  \/ \E r \in AuthResponses : ExchangeReturn(r)
  \/ IssueRequest
  \/ \E resp \in HttpResponses : Receive(resp)
  \/ RequestRaise

Spec == Init /\ [][Next]_vars

TypeOK ==
  /\ pc \in {"idle", "check", "exchange", "request", "await"}
  /\ accessToken.token \in AccessTokens \cup {""}
  /\ now \in 0..MaxTime


\* ------------------------------------------- the staleness test on its own
\* Token records and clock readings the staleness test is applied to: the
\* constructor's record, or a record holding a token issued at created_at
\* with a declared lifetime (expires_in still -1 when client.py:39 raised
\* on the first exchange).
StaleLifetimes == ExpiresInValues \cup {InitialExpiresIn, 1800}
StaleClock == {0, 30, 60, 90, 1700, 1740, 1770, 1800}
StaleStores ==
  {InitialAccessToken(0)} \cup
  [token : AccessTokens, created_at : {0, 30}, expires_in : StaleLifetimes]

InitStale ==
  /\ clientId = "client-id"
  /\ refreshToken = "refresh-token"
  /\ accountIds = << >>
  /\ accessToken \in StaleStores
  /\ now \in {t \in StaleClock : t >= accessToken.created_at}
  /\ pc = "idle"
  /\ method = ""
  /\ accIdx = 0
  /\ ret = << >>
  /\ outcome = NoOutcome
  /\ sent = NoSent
  /\ lastResp = NoResp
  /\ nCalls = 0
  /\ hist = IF accessToken.token = ""
              THEN InitialHist
              ELSE [InitialHist EXCEPT
                      !.checks = 1, !.exchanges = 1,
                      !.before = accessToken,
                      !.lastToken = accessToken.token,
                      !.refreshedAt =
                         IF accessToken.expires_in = InitialExpiresIn
                           THEN 0 - 1 ELSE accessToken.created_at,
                      !.origin =
                         [token |-> 1, created_at |-> 1,
                          expires_in |->
                            IF accessToken.expires_in = InitialExpiresIn
                              THEN 0 ELSE 1]]

NextStale ==
  \/ \E m \in Methods : Enter(m)
  \/ UpdateAccessTokenIfExpired

SpecStale == InitStale /\ [][NextStale]_vars

\* ------------------------------------------------- two concurrent callers
\* Two threads call endpoint methods of one TDClient.  client.py takes no
\* lock, so the threads interleave at the blocking calls: between the
\* staleness test and the return of auth.access_token, and between the
\* freshness check and the answer to the request.  Here pc, method, outcome,
\* and sent hold one value per caller; the client is constructed without
\* account ids and the answers to the requests are not recorded.
Callers == {1, 2}
\* The endpoint methods the two callers use: one that returns .json()
\* unconditionally and accounts().
ConcMethods == {"quote", "accounts"}

ConcInitialHist ==
  [exchanges |-> 0,     \* calls of auth.access_token made so far
   writes    |-> 0,     \* times client.py:37 has assigned the token
   saw       |-> [c \in Callers |-> 0]]
                        \* writes at the moment the caller's exchange began

InitConc ==
  /\ clientId = "client-id"
  /\ refreshToken = "refresh-token"
  /\ now = 0
  /\ accessToken = InitialAccessToken(now)
  /\ accountIds = << >>
  /\ pc = [c \in Callers |-> "idle"]
  /\ method = [c \in Callers |-> ""]
  /\ accIdx = 0
  /\ ret = << >>
  /\ outcome = [c \in Callers |-> NoOutcome]
  /\ sent = [c \in Callers |-> NoSent]
  /\ lastResp = NoResp
  /\ nCalls = 0
  /\ hist = ConcInitialHist

\* Caller c invokes endpoint method m.
ConcEnter(c, m) ==
  /\ pc[c] = "idle"
  /\ nCalls < MaxCalls
  /\ nCalls' = nCalls + 1
  /\ method' = [method EXCEPT ![c] = m]
  /\ outcome' = [outcome EXCEPT ![c] = NoOutcome]
  /\ sent' = [sent EXCEPT ![c] = NoSent]
  /\ pc' = [pc EXCEPT ![c] = FirstStep(m)]
  /\ UNCHANGED << clientId, refreshToken, accessToken, accountIds, now,
                  accIdx, ret, lastResp, hist >>

\* Caller c runs _updateAccessTokenIfExpired up to the call of
\* auth.access_token (client.py:30-36).
ConcUpdateAccessTokenIfExpired(c) ==
  /\ pc[c] = "check"
  /\ LET stale == IsStale(accessToken.token, accessTokenAgeSecs,
                          accessToken.expires_in)
     IN /\ pc' = [pc EXCEPT ![c] = IF stale THEN "exchange" ELSE "request"]
        /\ hist' = IF stale
                     THEN [hist EXCEPT !.exchanges = @ + 1,
                                       !.saw[c] = hist.writes]
                     ELSE hist
  /\ UNCHANGED << clientId, refreshToken, accessToken, accountIds, now, method,
                  accIdx, ret, outcome, sent, lastResp, nCalls >>

\* auth.access_token raises in caller c (client.py:35).
ConcExchangeRaise(c) ==
  /\ pc[c] = "exchange"
  /\ pc' = [pc EXCEPT ![c] = "idle"]
  /\ outcome' = [outcome EXCEPT ![c] = Raise("AuthError", "")]
  /\ UNCHANGED << clientId, refreshToken, accessToken, accountIds, now, method,
                  accIdx, ret, sent, lastResp, nCalls, hist >>

\* auth.access_token returns r to caller c; client.py:37-39 store it.
ConcExchangeReturn(c, r) ==
  /\ pc[c] = "exchange"
  /\ LET res == StoreResponse(accessToken, r, now)
     IN /\ accessToken' = res.store
        /\ hist' = [hist EXCEPT !.writes = IF "token" \in res.written
                                             THEN @ + 1 ELSE @]
        /\ pc' = [pc EXCEPT ![c] = IF res.raised THEN "idle" ELSE "request"]
        /\ outcome' = IF res.raised
                        THEN [outcome EXCEPT ![c] = Raise("KeyError", "")]
                        ELSE outcome
  /\ UNCHANGED << clientId, refreshToken, accountIds, now, method, accIdx, ret,
                  sent, lastResp, nCalls >>

\* Caller c calls requests.* with headers=self._headers().
ConcIssueRequest(c) ==
  /\ pc[c] = "request"
  /\ sent' = [sent EXCEPT ![c] = headers]
  /\ pc' = [pc EXCEPT ![c] = "await"]
  /\ UNCHANGED << clientId, refreshToken, accessToken, accountIds, now, method,
                  accIdx, ret, outcome, lastResp, nCalls, hist >>

\* The resource endpoint answers caller c and the method handles the answer.
ConcReceive(c, resp) ==
  /\ pc[c] = "await"
  /\ LET h == Handle(method[c], resp, 0, << >>)
     IN /\ pc' = [pc EXCEPT ![c] = h.pc]
        /\ outcome' = [outcome EXCEPT ![c] = h.outcome]
  /\ UNCHANGED << clientId, refreshToken, accessToken, accountIds, now, method,
                  accIdx, ret, sent, lastResp, nCalls, hist >>

\* requests.* raises in caller c.
ConcRequestRaise(c) ==
  /\ pc[c] = "await"
  /\ pc' = [pc EXCEPT ![c] = "idle"]
  /\ outcome' = [outcome EXCEPT ![c] = Raise("ConnectionError", "")]
  /\ UNCHANGED << clientId, refreshToken, accessToken, accountIds, now, method,
                  accIdx, ret, sent, lastResp, nCalls, hist >>

NextConc ==
  \/ Tick
  \/ \E c \in Callers, m \in ConcMethods : ConcEnter(c, m)
  \/ \E c \in Callers : ConcUpdateAccessTokenIfExpired(c)
  \/ \E c \in Callers : ConcExchangeRaise(c)
  \/ \E c \in Callers, r \in AuthResponses : ConcExchangeReturn(c, r)
  \/ \E c \in Callers : ConcIssueRequest(c)
  \/ \E c \in Callers, resp \in HttpResponses : ConcReceive(c, resp)
  \/ \E c \in Callers : ConcRequestRaise(c)

SpecConc == InitConc /\ [][NextConc]_vars

\* ================================================================== claims

\* C1: every HTTP request an endpoint method issues is preceded by exactly
\* one freshness check since the previous request of the call (or since the
\* method was entered); no request is issued without such a check.
C1_OneCheckBeforeEachRequest ==
  pc = "request" => hist.checksSince = 1

\* C1 witness: accounts() has issued the request for its second account id.
C1_Witness ==
  /\ method = "accounts"
  /\ pc = "await"
  /\ accIdx = 2
  /\ hist.callRequests = 2

\* C2: the staleness test is true iff age >= expires_in - 60 or no token has
\* ever been issued; with expires_in = 1800 it is true at age 1770 and false
\* at age 1700, and the boundary age expires_in - 60 counts as stale.
C2_StaleIff ==
  [][ (pc = "check" /\ pc' # "check") =>
        LET a == now - accessToken.created_at
            e == accessToken.expires_in
            issued == hist.origin.token # 0
        IN /\ (pc' = "exchange") <=> (a >= e - 60 \/ ~issued)
           /\ (pc' = "request") <=> ~(a >= e - 60 \/ ~issued)
           /\ (issued /\ e = 1800 /\ a = 1770) => pc' = "exchange"
           /\ (issued /\ e = 1800 /\ a = 1700) => pc' = "request"
           /\ (issued /\ a = e - 60) => pc' = "exchange" ]_vars

\* C2 witness: a token with lifetime 1800 was tested at the boundary age 1740
\* and found stale.
C2_Witness ==
  /\ pc = "exchange"
  /\ accessToken.token # ""
  /\ accessToken.expires_in = 1800
  /\ hist.checkNow - accessToken.created_at = 1740

\* C3 as stated: whenever an endpoint method issues a request the stored
\* token is non-empty and its age is strictly less than expires_in - 60.
C3_AsStated ==
  pc = "request" =>
    /\ accessToken.token # ""
    /\ now - accessToken.created_at < accessToken.expires_in - 60

\* C3 amended: whenever an endpoint method issues a request the stored token
\* is non-empty, and if the stored expires_in exceeds 60 the token's age is
\* less than expires_in - 60 plus the time that passed since the freshness
\* check of that request.
C3_FreshAtCheck ==
  pc = "request" =>
    /\ accessToken.token # ""
    /\ accessToken.expires_in > 60 =>
         (now - accessToken.created_at)
            < (accessToken.expires_in - 60) + (now - hist.checkNow)

\* C3 witness: a request is issued without an exchange in its call, on a
\* token that has aged since it was obtained.
C3_Witness ==
  /\ pc = "request"
  /\ hist.callExchanges = 0
  /\ accessToken.expires_in > 60
  /\ now - accessToken.created_at > 0

\* C4: when auth.access_token raises, token, created_at and expires_in keep
\* the values they had before _updateAccessTokenIfExpired was called, and
\* the next freshness check finds the store stale and calls the exchange
\* again.
C4_FailedExchangeKeepsStore ==
  [][ /\ outcome'.exc = "AuthError" => accessToken' = hist'.before
      /\ (hist.authFailed /\ pc = "check" /\ pc' # "check") =>
           (pc' = "exchange" /\ hist'.exchanges = hist.exchanges + 1) ]_vars

\* C4 witness: the exchange failed while a token was held, and a later
\* freshness check has called the exchange again.
C4_Witness ==
  /\ hist.authFailed
  /\ accessToken.token # ""
  /\ pc = "exchange"


\* C5 as stated: for every endpoint method, an answer with a non-2xx status
\* ends the method in an error that carries that status code and body, and
\* an answer with a 2xx status that ends the method ends it in a normal
\* return.  Stated for answers whose body is the JSON the method can
\* decode, so that only the handling of the status code is in question.
C5_AsStated ==
  [][ (pc = "await" /\ pc' # "await" /\ outcome'.exc # "ConnectionError"
         /\ json(lastResp'.text) = "list") =>
        IF lastResp'.status_code >= 200 /\ lastResp'.status_code < 300
          THEN pc' = "idle" => outcome'.kind = "return"
          ELSE /\ pc' = "idle"
               /\ outcome'.kind = "raise"
               /\ outcome'.status = lastResp'.status_code
               /\ outcome'.body = lastResp'.text ]_vars

\* C6: a freshness check made with no clock advance since a successful
\* exchange that returned expires_in > 60 finds the store not stale and
\* performs no exchange.
C6_NoExchangeRightAfterRefresh ==
  [][ (pc = "check" /\ pc' # "check" /\ hist.refreshedAt = now
         /\ accessToken.expires_in > 60) =>
        (pc' = "request" /\ hist'.exchanges = hist.exchanges) ]_vars

\* C6 witness: a second freshness check, made at the instant of the
\* successful exchange, went on to the request without an exchange.
C6_Witness ==
  /\ hist.checks >= 2
  /\ pc = "request"
  /\ ~hist.checkStale
  /\ hist.checkNow = now
  /\ hist.refreshedAt = now

\* C7: as long as the client holds the constructor's record (token '',
\* expires_in = -1) every freshness check, whatever time has elapsed, calls
\* the exchange, and no request is issued before the first exchange call.
C7_FreshClientIsStale ==
  [][ /\ (pc = "check" /\ pc' # "check" /\ accessToken.token = ""
            /\ accessToken.expires_in = 0 - 1) => pc' = "exchange"
      /\ hist'.exchanges = 0 => pc' \notin {"request", "await"} ]_vars

\* C7 witness: the first freshness check, made some time after construction,
\* has called the exchange.
C7_Witness ==
  /\ pc = "exchange"
  /\ hist.exchanges = 1
  /\ accessToken.token = ""
  /\ now > accessToken.created_at

C9_AsStated ==
  outcome.exc = "AuthError" =>
    /\ pc = "idle"
    /\ hist.callRequests = 0
    /\ hist.callExchanges = 1

\* C9 amended: when the exchange fails inside an endpoint method, the method
\* ends with the error at once: the failing freshness check is not repeated
\* and no request follows it.  Each freshness check makes at most one
\* exchange attempt.  Except in accounts() over two or more account ids, the
\* call has issued no request and made exactly one exchange attempt; in
\* accounts() the requests and exchanges of earlier account ids have
\* happened, and the request of the failing id and of later ids has not.
C9_AbortsWithoutRetry ==
  outcome.exc = "AuthError" =>
    /\ pc = "idle"
    /\ hist.checksSince = 1
    /\ hist.callExchanges <= hist.callRequests + 1
    /\ (method # "accounts" \/ Len(accountIds) <= 1) =>
         (hist.callRequests = 0 /\ hist.callExchanges = 1)
    /\ (method = "accounts" /\ Len(accountIds) > 1) =>
         hist.callRequests < Len(accountIds)

\* C9 witness: search() ended with the exchange's error.
C9_Witness ==
  /\ outcome.exc = "AuthError"
  /\ method = "search"
  /\ pc = "idle"
  /\ hist.callExchanges = 1
  /\ sent = NoSent

\* C10 as stated: between operations token, created_at and expires_in all
\* come from the same exchange response or are all the constructor's values;
\* a response lacking access_token or expires_in changes none of them.
C10_AsStated ==
  pc = "idle" =>
    /\ hist.origin.token = hist.origin.created_at
    /\ hist.origin.created_at = hist.origin.expires_in


\* C11: a freshness check calls the exchange iff the store is stale at that
\* moment (token empty or age >= expires_in - 60), and calls it at most
\* once; no step other than a freshness check starts an exchange, so the
\* number of exchange calls never exceeds the number of freshness checks.
C11_ExchangeOnlyWhenStale ==
  [][ LET stale == \/ accessToken.token = ""
                   \/ now - accessToken.created_at
                        >= accessToken.expires_in - 60
      IN /\ (pc = "check" /\ pc' # "check") =>
              /\ hist'.checks = hist.checks + 1
              /\ stale => (pc' = "exchange"
                             /\ hist'.exchanges = hist.exchanges + 1)
              /\ ~stale => (pc' = "request"
                              /\ hist'.exchanges = hist.exchanges)
         /\ (pc # "exchange" /\ pc' = "exchange") => pc = "check"
         /\ hist'.exchanges # hist.exchanges => pc = "check"
         /\ hist'.exchanges <= hist'.checks ]_vars

\* C11 witness: two freshness checks have been made and only the first
\* called the exchange.
C11_Witness ==
  /\ hist.checks = 2
  /\ hist.exchanges = 1
  /\ ~hist.checkStale
  /\ pc = "request"


C14_AccountsRequests ==
  method = "accounts" =>
    /\ Len(accountIds) = 0 =>
         /\ hist.requested \in {<< >>, << 0 >>}
         /\ (pc = "idle" /\ outcome.exc \notin {"AuthError", "KeyError"}) =>
              hist.requested = << 0 >>
    /\ Len(accountIds) > 0 =>
         /\ hist.callRequests <= Len(accountIds)
         /\ hist.requested = SubSeq(accountIds, 1, hist.callRequests)
         /\ pc = "request" =>
              (hist.checksSince = 1 /\ hist.callRequests = accIdx - 1)
         /\ outcome.kind = "return" =>
              /\ hist.requested = accountIds
              /\ [i \in 1..Len(outcome.value) |-> outcome.value[i][1]]
                   = accountIds
         /\ lastResp.status_code \notin {0, 200} =>
              hist.callRequests = accIdx
    /\ lastResp.status_code \notin {0, 200} =>
         /\ pc = "idle"
         /\ outcome.kind = "raise"
         /\ outcome.exc = "Exception"
         /\ outcome.value = << >>

\* C14 witness: accounts() over two ids got 200 for the first and 404 for
\* the second: it raised, and the entry built for the first id is not
\* returned.
C14_Witness ==
  /\ method = "accounts"
  /\ accountIds = << 11, 22 >>
  /\ hist.requested = << 11, 22 >>
  /\ lastResp.status_code = 404
  /\ Len(ret) = 1
  /\ outcome.kind = "raise"
  /\ outcome.value = << >>


\* C15 as stated: with two concurrent callers the freshness check and the
\* request form a critical section: the two callers never both have an
\* exchange in flight for the same stale token, and no exchange answer is
\* stored over a token that was set after that exchange began.
C15_AsStated ==
  [][ /\ ~(/\ pc'[1] = "exchange"
           /\ pc'[2] = "exchange"
           /\ hist'.saw[1] = hist'.saw[2])
      /\ \A c \in Callers :
           (pc[c] = "exchange" /\ hist'.writes # hist.writes) =>
             hist.writes = hist.saw[c] ]_vars

====
